---- MODULE Spec2Model ----
(***************************************************************************)
(* gematom (src/src/main.rs): one run of build_feed over a small site.     *)
(*                                                                         *)
(* A path is the sequence of names below the site root, a file's text is   *)
(* a sequence of lines; Chars gives the characters of a name or a line.    *)
(* Times are seconds since the Unix epoch.  A value a Rust expression      *)
(* yields is [ok |-> TRUE, val |-> v]; a panic (unwrap on None/Err, slice  *)
(* out of range) is [ok |-> FALSE, val |-> <reason>].                      *)
(***************************************************************************)
EXTENDS Integers, Sequences, FiniteSets, TLC

VARIABLES
    fs,        \* the site: path -> [isFile, mode, time, lines]
    n,         \* -n N
    verbose,   \* !quiet
    clean,     \* --clean-title
    pc,        \* position of the run in build_feed
    files,     \* get_files: the merged candidates (Pair), sorted
    selected,  \* Some(files[0..n])
    entries,   \* build_feed: the entries built so far
    timeRead,  \* paths time_func was called on
    stdout,    \* lines printed with println!
    outFile,   \* what is at <directory>/<output>
    feedTitle, \* the title build_feed gave the feed
    panic,     \* NoPanic, or where and why the run panicked
    hResult    \* what a lone call of extract_first_heading or
               \* populate_entry_from_file returned

vars == <<fs, n, verbose, clean, pc, files, selected, entries,
          timeRead, stdout, outFile, feedTitle, panic, hResult>>

----
\* Bounds of the model.
MaxFiles == 2
MaxN == 3
MaxLines == 3

----
\* Values and panics.
Ok(v) == [ok |-> TRUE, val |-> v]

Panic(why) == [ok |-> FALSE, val |-> why]

Min(a, b) == IF a <= b THEN a ELSE b

Last(s) == s[Len(s)]

Reverse(s) == [i \in 1..Len(s) |-> s[Len(s) + 1 - i]]

StartsWith(s, p) == Len(s) >= Len(p) /\ SubSeq(s, 1, Len(p)) = p

EndsWith(s, p) == Len(s) >= Len(p) /\ SubSeq(s, Len(s) - Len(p) + 1, Len(s)) = p

----
\* Names of the model's site.
ExtGmi == ".gmi"

ExtGemini == ".gemini"

IndexGmi == "index.gmi"

IndexGemini == "index.gemini"

\* let indexes = vec!["index.gmi", "index.gemini"];
indexes == {IndexGmi, IndexGemini}

\* the two configured categories: -c f:flat -c t:tree
CatF == "f"

CatT == "t"

categories == (CatF :> "FLAT") @@ (CatT :> "TREE")

NameA == "a_b.gmi"

NameD == "d.gmi"

NameDated == "2022-01-02-n.gmi"

NameBadDate == "2021-13-05_x.gemini"

DirSub == "sub"

DirDated == "2021-05-06"

RootName == "my_site"

\* names the default title is computed from
NamePost == "2023-05-01-my-post.gmi"

NameUnderPost == "2023-05-01_my_post.gmi"

NameSeps == "2023-05-01_- x_y.gmi"

NameStampOnly == "2023-05-01.gmi"

NameNoStamp == "2023-05-0x_y.gmi"

NameLateStamp == "x_2023-05-01.gmi"

DirUnderPost == "2023-05-01_my_post"

----
\* The characters of the strings of the model (a TLA+ string is atomic).
Chars(str) ==
    CASE str = "index.gmi" -> <<"i", "n", "d", "e", "x", ".", "g", "m", "i">>
      [] str = "index.gemini" -> <<"i", "n", "d", "e", "x", ".", "g", "e", "m", "i", "n", "i">>
      [] str = "a_b.gmi" -> <<"a", "_", "b", ".", "g", "m", "i">>
      [] str = "d.gmi" -> <<"d", ".", "g", "m", "i">>
      [] str = "2022-01-02-n.gmi" -> <<"2", "0", "2", "2", "-", "0", "1", "-", "0", "2", "-", "n", ".", "g", "m", "i">>
      [] str = "2021-13-05_x.gemini" -> <<"2", "0", "2", "1", "-", "1", "3", "-", "0", "5", "_", "x", ".", "g", "e", "m", "i", "n", "i">>
      [] str = "sub" -> <<"s", "u", "b">>
      [] str = "2021-05-06" -> <<"2", "0", "2", "1", "-", "0", "5", "-", "0", "6">>
      [] str = "my_site" -> <<"m", "y", "_", "s", "i", "t", "e">>
      [] str = "2023-05-01-my-post.gmi" -> <<"2", "0", "2", "3", "-", "0", "5", "-", "0", "1", "-", "m", "y", "-", "p", "o", "s", "t", ".", "g", "m", "i">>
      [] str = "2023-05-01_my_post.gmi" -> <<"2", "0", "2", "3", "-", "0", "5", "-", "0", "1", "_", "m", "y", "_", "p", "o", "s", "t", ".", "g", "m", "i">>
      [] str = "2023-05-01_- x_y.gmi" -> <<"2", "0", "2", "3", "-", "0", "5", "-", "0", "1", "_", "-", " ", "x", "_", "y", ".", "g", "m", "i">>
      [] str = "2023-05-01.gmi" -> <<"2", "0", "2", "3", "-", "0", "5", "-", "0", "1", ".", "g", "m", "i">>
      [] str = "2023-05-0x_y.gmi" -> <<"2", "0", "2", "3", "-", "0", "5", "-", "0", "x", "_", "y", ".", "g", "m", "i">>
      [] str = "x_2023-05-01.gmi" -> <<"x", "_", "2", "0", "2", "3", "-", "0", "5", "-", "0", "1", ".", "g", "m", "i">>
      [] str = "2023-05-01_my_post" -> <<"2", "0", "2", "3", "-", "0", "5", "-", "0", "1", "_", "m", "y", "_", "p", "o", "s", "t">>
      [] str = "f" -> <<"f">>
      [] str = "t" -> <<"t">>
      [] str = ".gmi" -> <<".", "g", "m", "i">>
      [] str = ".gemini" -> <<".", "g", "e", "m", "i", "n", "i">>
      [] str = "txt" -> <<"t", "x", "t">>
      [] str = "# H_i " -> <<"#", " ", "H", "_", "i", " ">>
      [] str = "##x" -> <<"#", "#", "x">>
      [] str = "#" -> <<"#">>
      [] str = "##" -> <<"#", "#">>
      [] str = " #a" -> <<" ", "#", "a">>
      [] str = "" -> <<>>

----
\* The site: what may exist below the root, in the order glob yields paths
\* (alphabetical within a directory).
AllPaths ==
    << <<CatF, NameBadDate>>, <<CatF, NameDated>>, <<CatF, NameA>>,
       <<CatF, NameD>>, <<CatF, IndexGmi>>, <<CatF, DirSub, NameA>>,
       <<CatT, DirDated, IndexGemini>>, <<CatT, IndexGmi>>,
       <<CatT, DirSub, NameA>>, <<CatT, DirSub, IndexGmi>>,
       <<IndexGmi>> >>

PathSet == {AllPaths[i] : i \in 1..Len(AllPaths)}

\* st_mode permission bits: rw-r--r-- and rw-r-----
Modes == {420, 416}

\* st_mtime / st_ctime values, both later than every date used in a name
Times == {1650000000, 1660000000}

LinePlain == "txt"

LineHeading == "# H_i "

LineSubHeading == "##x"

LineMarker == "#"

LineMarkers == "##"

LineIndented == " #a"

LineEmpty == ""

TextPlain == <<LinePlain>>

TextHeading == <<LinePlain, LineHeading, LineSubHeading>>

TextMarkers == <<LineEmpty, LineMarkers, LineHeading>>

\* the paths collect_articles may return when they are world-readable
Candidates ==
    {<<CatF, NameBadDate>>, <<CatF, NameDated>>, <<CatF, NameA>>, <<CatF, NameD>>,
     <<CatT, DirDated, IndexGemini>>, <<CatT, DirSub, IndexGmi>>}

\* the regular files and directories a path of the site may be: the paths
\* discovery looks at come with either mode and either time
NodesOf(p) ==
    LET kinds == IF p = <<CatF, NameD>> THEN {FALSE}
                 ELSE IF p = <<CatT, DirSub, IndexGmi>> THEN {TRUE, FALSE}
                 ELSE {TRUE}
        modes == IF p \in Candidates \cup {<<IndexGmi>>} THEN Modes ELSE {420}
        times == IF p \in Candidates THEN Times ELSE {1650000000}
        texts == IF p = <<CatF, NameA>> THEN {TextPlain, TextMarkers}
                 ELSE IF p \in {<<CatT, DirSub, IndexGmi>>, <<IndexGmi>>}
                     THEN {TextHeading, TextMarkers}
                 ELSE IF p = <<CatT, DirDated, IndexGemini>> THEN {TextPlain}
                 ELSE {TextHeading}
    IN  {[isFile |-> k, mode |-> m, time |-> t, lines |-> IF k THEN x ELSE <<>>] :
            k \in kinds, m \in modes, t \in times, x \in texts}

RECURSIVE Assign(_)
Assign(S) ==
    IF S = {} THEN {<<>>}
    ELSE LET p == CHOOSE x \in S : TRUE
         IN  {(p :> v) @@ g : v \in NodesOf(p), g \in Assign(S \ {p})}

Sites == UNION {Assign(S) : S \in {T \in SUBSET PathSet : Cardinality(T) <= MaxFiles}}

----
\* Filesystem Metadata Accessor.
Exists(f) == f \in DOMAIN fs

is_file(f) == IF Exists(f) THEN fs[f].isFile ELSE FALSE

is_world_readable(f) == IF Exists(f) THEN (fs[f].mode \div 4) % 2 # 0 ELSE FALSE

\* mtime or ctime, whichever --mtime selects
time_func(f) == fs[f].time

----
\* Text helpers of the standard library, as the code uses them.
Digits == {"0", "1", "2", "3", "4", "5", "6", "7", "8", "9"}

DigitVal(c) ==
    CASE c = "0" -> 0 [] c = "1" -> 1 [] c = "2" -> 2 [] c = "3" -> 3
      [] c = "4" -> 4 [] c = "5" -> 5 [] c = "6" -> 6 [] c = "7" -> 7
      [] c = "8" -> 8 [] c = "9" -> 9

\* char::is_whitespace
IsWhitespace(c) == c \in {" ", "\t"}

RECURSIVE TrimStart(_)
TrimStart(s) ==
    IF s # <<>> /\ IsWhitespace(Head(s)) THEN TrimStart(Tail(s)) ELSE s

RECURSIVE TrimEnd(_)
TrimEnd(s) ==
    IF s # <<>> /\ IsWhitespace(Last(s)) THEN TrimEnd(SubSeq(s, 1, Len(s) - 1)) ELSE s

\* str::trim
Trim(s) == TrimEnd(TrimStart(s))

\* str::replace("_", " ")
ReplaceUnderscores(s) == [i \in 1..Len(s) |-> IF s[i] = "_" THEN " " ELSE s[i]]

\* Path::file_name, Path::parent, Path::file_stem
file_name(path) == Last(path)

parent(path) == SubSeq(path, 1, Len(path) - 1)

file_stem(path) ==
    LET name == Chars(file_name(path))
        dots == {i \in 2..Len(name) : name[i] = "."}
    IN  IF dots = {} THEN name
        ELSE SubSeq(name, 1, (CHOOSE i \in dots : \A j \in dots : j <= i) - 1)

\* RFC3339_RE = ^\d{4}-\d{2}-\d{2}
RFC3339_RE_is_match(name) ==
    /\ Len(name) >= 10
    /\ \A i \in {1, 2, 3, 4, 6, 7, 9, 10} : name[i] \in Digits
    /\ name[5] = "-"
    /\ name[8] = "-"

\* chrono: the days of a month, and the days from 1970-01-01 to a civil date
IsLeap(y) == (y % 4 = 0 /\ y % 100 # 0) \/ y % 400 = 0

DaysInMonth(y, m) ==
    IF m = 2 THEN (IF IsLeap(y) THEN 29 ELSE 28)
    ELSE IF m \in {4, 6, 9, 11} THEN 30 ELSE 31

DaysFromCivil(y, m, d) ==
    LET yy == IF m <= 2 THEN y - 1 ELSE y
        era == yy \div 400
        yoe == yy - era * 400
        mp == IF m > 2 THEN m - 3 ELSE m + 9
        doy == (153 * mp + 2) \div 5 + d - 1
        doe == yoe * 365 + yoe \div 4 - yoe \div 100 + doy
    IN  era * 146097 + doe - 719468

\* format!("{}{}", &basename[0..10], "T00:00:00 Z").parse(): the instant in
\* seconds, or Err for a month or a day no calendar has
ParseDate(name) ==
    LET y == DigitVal(name[1]) * 1000 + DigitVal(name[2]) * 100
             + DigitVal(name[3]) * 10 + DigitVal(name[4])
        m == DigitVal(name[6]) * 10 + DigitVal(name[7])
        d == DigitVal(name[9]) * 10 + DigitVal(name[10])
    IN  IF m \in 1..12 /\ d >= 1 /\ d <= DaysInMonth(y, m)
        THEN Ok(DaysFromCivil(y, m, d) * 86400)
        ELSE Panic("date")

----
\* Metadata Extractor.

\* the while loop of extract_first_heading: drop '#' while the first char is
\* one; chars().nth(0).unwrap() panics once nothing is left
RECURSIVE StripMarkers(_)
StripMarkers(buf) ==
    IF buf = <<>> THEN Panic("heading")
    ELSE IF Head(buf) = "#" THEN StripMarkers(Tail(buf))
    ELSE Ok(buf)

\* `for line in reader.lines()` of extract_first_heading
RECURSIVE ScanLines(_, _)
ScanLines(lines, default) ==
    IF lines = <<>> THEN Ok(default)
    ELSE IF StartsWith(Chars(Head(lines)), <<"#">>)
         THEN LET buf == StripMarkers(Chars(Head(lines)))
              IN  IF buf.ok THEN Ok(Trim(buf.val)) ELSE buf
    ELSE ScanLines(Tail(lines), default)

\* extract_first_heading(filename, default): reading a directory fails
extract_first_heading(filename, default) ==
    IF ~Exists(filename) \/ ~fs[filename].isFile THEN Panic("read")
    ELSE ScanLines(fs[filename].lines, default)

\* the name get_update_time and the default title are taken from
basename(filepath, cat) ==
    IF cat = "FLAT" THEN file_name(filepath) ELSE file_name(parent(filepath))

get_update_time(filepath, cat) ==
    IF RFC3339_RE_is_match(Chars(basename(filepath, cat)))
    THEN ParseDate(Chars(basename(filepath, cat)))
    ELSE Ok(time_func(filepath))

\* the index after the date and the separators that follow it
RECURSIVE SkipSeparators(_, _)
SkipSeparators(name, idx) ==
    IF idx <= Len(name) /\ (name[idx] \in {"_", "-"} \/ IsWhitespace(name[idx]))
    THEN SkipSeparators(name, idx + 1)
    ELSE idx

remove_rfc3339_date(filename) ==
    IF RFC3339_RE_is_match(filename)
    THEN SubSeq(filename, SkipSeparators(filename, 11), Len(filename))
    ELSE filename

default_title(filepath, cat, cl) ==
    LET raw == remove_rfc3339_date(
                   IF cat = "FLAT" THEN file_stem(filepath)
                   ELSE Chars(file_name(parent(filepath))))
    IN  IF cl THEN ReplaceUnderscores(raw) ELSE raw

\* populate_entry_from_file with clean-title applied to the heading as well
populate_entry_cleaning_heading(filepath, cat, cl) ==
    LET updated == get_update_time(filepath, cat)
        title == extract_first_heading(filepath, default_title(filepath, cat, cl))
    IN  IF ~updated.ok THEN updated
        ELSE IF ~title.ok THEN title
        ELSE Ok([id |-> filepath, updated |-> updated.val,
                 title |-> IF cl THEN ReplaceUnderscores(title.val) ELSE title.val])

\* populate_entry_from_file: the entry, or the panic that ends the run
populate_entry_from_file(filepath, cat, cl) ==
    LET updated == get_update_time(filepath, cat)
        title == extract_first_heading(filepath, default_title(filepath, cat, cl))
    IN  IF ~updated.ok THEN updated
        ELSE IF ~title.ok THEN title
        ELSE Ok([id |-> filepath, updated |-> updated.val, title |-> title.val])

----
\* Article Discovery.

\* glob(fulldir/pat): "*" stays inside fulldir, "**/" also descends
glob(fulldir, ext, recursive) ==
    SelectSeq(AllPaths, LAMBDA path :
        /\ Exists(path)
        /\ Len(path) > Len(fulldir)
        /\ SubSeq(path, 1, Len(fulldir)) = fulldir
        /\ recursive \/ Len(path) = Len(fulldir) + 1
        /\ EndsWith(Chars(file_name(path)), Chars(ext)))

\* diff_paths(path, fulldir)
diff_paths(path, fulldir) == SubSeq(path, Len(fulldir) + 1, Len(path))

\* IsArticle without the test on the relative path
IsArticleAnyDepth(path, typ, fulldir) ==
    \/ file_name(path) \notin indexes /\ typ = "FLAT"
    \/ file_name(path) \in indexes /\ typ = "TREE"

\* the test of collect_articles on one glob match
IsArticle(path, typ, fulldir) ==
    \/ file_name(path) \notin indexes /\ typ = "FLAT"
    \/ /\ file_name(path) \in indexes
       /\ typ = "TREE"
       /\ Len(diff_paths(path, fulldir)) >= 2

Pair(f, typ) == [f |-> f, cat |-> typ]

collect_articles(name, typ) ==
    LET fulldir == <<name>>
        matches == glob(fulldir, ExtGmi, typ = "TREE") \o glob(fulldir, ExtGemini, typ = "TREE")
        articles == SelectSeq(matches, LAMBDA path : IsArticle(path, typ, fulldir))
        readable == SelectSeq(articles, LAMBDA path : is_world_readable(path))
    IN  [i \in 1..Len(readable) |-> Pair(readable[i], typ)]

----
\* Selector/Ranker.

\* the key files.sort_by_key sorts on
SortKey(a) == time_func(a.f)

\* x put behind every element whose key is not greater (the sort is stable)
RECURSIVE InsertByKey(_, _)
InsertByKey(s, x) ==
    IF s = <<>> THEN <<x>>
    ELSE IF SortKey(Last(s)) <= SortKey(x) THEN Append(s, x)
    ELSE Append(InsertByKey(SubSeq(s, 1, Len(s) - 1), x), Last(s))

RECURSIVE SortByKey(_)
SortByKey(s) ==
    IF s = <<>> THEN <<>>
    ELSE InsertByKey(SortByKey(SubSeq(s, 1, Len(s) - 1)), Last(s))

\* Ranked without files.reverse()
RankedAscending(s) == SortByKey(s)

\* files.sort_by_key(..); files.reverse()
Ranked(s) == Reverse(SortByKey(s))

\* `for (cat, typ) in categories`: a HashMap iterates in no fixed order
CategoryOrders ==
    {o \in [1..Cardinality(DOMAIN categories) -> DOMAIN categories] :
        \A i, j \in DOMAIN o : i # j => o[i] # o[j]}

RECURSIVE Merge(_)
Merge(order) ==
    IF order = <<>> THEN <<>>
    ELSE Merge(SubSeq(order, 1, Len(order) - 1))
         \o collect_articles(Last(order), categories[Last(order)])

\* the result of get_files on the merged candidates: None, a panic of the
\* slice files[0..n], or Some(files[0..n])
get_files(merged, limit) ==
    LET sorted == Ranked(merged)
    IN  IF Len(sorted) = 0 THEN [kind |-> "None"]
        ELSE IF limit > Len(sorted) THEN [kind |-> "panic"]
        ELSE [kind |-> "Some", val |-> SubSeq(sorted, 1, limit)]

----
\* Feed Assembler.
NoFile == [kind |-> "absent"]

OldDoc == [kind |-> "old"]

\* Feed::default().updated
DefaultUpdated == 0

get_feed_title(cl) ==
    LET default == IF cl THEN ReplaceUnderscores(Chars(RootName)) ELSE Chars(RootName)
    IN  IF is_file(<<IndexGemini>>) /\ is_world_readable(<<IndexGemini>>)
            THEN extract_first_heading(<<IndexGemini>>, default)
        ELSE IF is_file(<<IndexGmi>>) /\ is_world_readable(<<IndexGmi>>)
            THEN extract_first_heading(<<IndexGmi>>, default)
        ELSE Ok(default)

\* FeedUpdated taking the last entry
FeedUpdatedOfLast(es) == IF Len(es) # 0 THEN es[Len(es)].updated ELSE DefaultUpdated

\* feed.set_updated(*entries[0].updated()) when there is an entry
FeedUpdated(es) == IF Len(es) # 0 THEN es[1].updated ELSE DefaultUpdated

Document(title, es) ==
    [kind |-> "feed", title |-> title, updated |-> FeedUpdated(es), entries |-> es]

----
\* One run of build_feed.
Idle == Panic("idle")

NoPanic == [stage |-> "none", why |-> "none"]

Init ==
    /\ fs \in Sites
    /\ n = 0
    /\ verbose = FALSE
    /\ clean = FALSE
    /\ outFile \in {NoFile, OldDoc}
    /\ pc = "start"
    /\ files = <<>>
    /\ selected = <<>>
    /\ entries = <<>>
    /\ timeRead = {}
    /\ stdout = <<>>
    /\ feedTitle = <<>>
    /\ panic = NoPanic
    /\ hResult = Idle

\* a panic unwinds main: the run ends where it is
Abort(stage, why) ==
    /\ pc' = "aborted"
    /\ panic' = [stage |-> stage, why |-> why]

\* main hands build_feed its arguments (no --title, so the title comes from
\* get_feed_title); build_feed up to the call of get_files: the feed's title
\* and its header
Begin ==
    /\ pc = "start"
    /\ \E limit \in 0..MaxN, v \in BOOLEAN, cl \in BOOLEAN :
        \E title \in {get_feed_title(cl)} :
            /\ n' = limit
            /\ verbose' = v
            /\ clean' = cl
            /\ \/ /\ ~title.ok
                  /\ Abort("get_feed_title", title.val)
                  /\ UNCHANGED <<feedTitle, stdout>>
               \/ /\ title.ok
                  /\ feedTitle' = title.val
                  /\ stdout' = IF v THEN Append(stdout, "Generating feed") ELSE stdout
                  /\ pc' = "ranking"
                  /\ panic' = panic
    /\ UNCHANGED <<fs, files, selected, entries, timeRead, outFile, hResult>>

\* get_files, and the match on its result in build_feed
GetFiles ==
    /\ pc = "ranking"
    /\ \E order \in CategoryOrders :
        \E merged \in {Merge(order)} :
        \E got \in {get_files(merged, n)} :
            /\ files' = Ranked(merged)
            \* sorting fewer than two elements never computes a key
            /\ timeRead' = IF Len(merged) >= 2
                           THEN {merged[i].f : i \in 1..Len(merged)} ELSE {}
            /\ \/ /\ got.kind = "None"
                  /\ stdout' = IF verbose
                               THEN Append(stdout, "No world-readable gemini content found! :(")
                               ELSE stdout
                  /\ pc' = "done"
                  /\ UNCHANGED <<selected, panic>>
               \/ /\ got.kind = "panic"
                  /\ Abort("get_files", "slice")
                  /\ UNCHANGED <<selected, stdout>>
               \/ /\ got.kind = "Some"
                  /\ selected' = got.val
                  /\ pc' = "populate"
                  /\ UNCHANGED <<stdout, panic>>
    /\ UNCHANGED <<fs, n, verbose, clean, entries, outFile, feedTitle, hResult>>

\* PopulateEntry writing the feed after each entry
PopulateEntryWritingFeed ==
    /\ pc = "populate"
    /\ Len(entries) < Len(selected)
    /\ \E fp \in {selected[Len(entries) + 1]} :
       \E entry \in {populate_entry_from_file(fp.f, fp.cat, clean)} :
           /\ timeRead' = IF RFC3339_RE_is_match(Chars(basename(fp.f, fp.cat)))
                          THEN timeRead ELSE timeRead \cup {fp.f}
           /\ \/ /\ ~entry.ok
                 /\ Abort("populate_entry_from_file", entry.val)
                 /\ UNCHANGED <<entries, stdout, outFile>>
              \/ /\ entry.ok
                 /\ entries' = Append(entries, entry.val)
                 /\ outFile' = Document(feedTitle, entries')
                 /\ stdout' = IF verbose THEN Append(stdout, "Adding") ELSE stdout
                 /\ UNCHANGED <<pc, panic>>
    /\ UNCHANGED <<fs, n, verbose, clean, files, selected, feedTitle, hResult>>

\* one turn of `for fp in files`
PopulateEntry ==
    /\ pc = "populate"
    /\ Len(entries) < Len(selected)
    /\ \E fp \in {selected[Len(entries) + 1]} :
       \E entry \in {populate_entry_from_file(fp.f, fp.cat, clean)} :
           /\ timeRead' = IF RFC3339_RE_is_match(Chars(basename(fp.f, fp.cat)))
                          THEN timeRead ELSE timeRead \cup {fp.f}
           /\ \/ /\ ~entry.ok
                 /\ Abort("populate_entry_from_file", entry.val)
                 /\ UNCHANGED <<entries, stdout>>
              \/ /\ entry.ok
                 /\ entries' = Append(entries, entry.val)
                 /\ stdout' = IF verbose THEN Append(stdout, "Adding") ELSE stdout
                 /\ UNCHANGED <<pc, panic>>
    /\ UNCHANGED <<fs, n, verbose, clean, files, selected, outFile, feedTitle, hResult>>

\* the end of build_feed: the feed is completed and written
WriteFeed ==
    /\ pc = "populate"
    /\ Len(entries) = Len(selected)
    /\ stdout' = Append(stdout, "outputting to")
    /\ outFile' = Document(feedTitle, entries)
    /\ pc' = "done"
    /\ UNCHANGED <<fs, n, verbose, clean, files, selected, entries, timeRead,
                   feedTitle, panic, hResult>>

Next ==
    \/ Begin
    \/ GetFiles
    \/ PopulateEntry
    \/ WriteFeed

Spec == Init /\ [][Next]_vars

----
\* extract_first_heading called on one readable file of up to MaxLines lines.
LineSet ==
    {LinePlain, LineHeading, LineSubHeading, LineMarker, LineMarkers,
     LineIndented, LineEmpty}

Texts == UNION {[1..k -> LineSet] : k \in 0..MaxLines}

HeadingFile == <<CatF, NameA>>

HeadingDefault == Chars(RootName)

InitHeading ==
    /\ fs \in {HeadingFile :> [isFile |-> TRUE, mode |-> 420, time |-> 1650000000,
                               lines |-> x] : x \in Texts}
    /\ n = 0
    /\ verbose = FALSE
    /\ clean = FALSE
    /\ outFile = NoFile
    /\ pc = "heading"
    /\ files = <<>>
    /\ selected = <<>>
    /\ entries = <<>>
    /\ timeRead = {}
    /\ stdout = <<>>
    /\ feedTitle = <<>>
    /\ panic = NoPanic
    /\ hResult = Idle

ExtractHeading ==
    /\ pc = "heading"
    /\ hResult' = extract_first_heading(HeadingFile, HeadingDefault)
    /\ pc' = "returned"
    /\ UNCHANGED <<fs, n, verbose, clean, files, selected, entries, timeRead, stdout,
                   outFile, feedTitle, panic>>

NextHeading == ExtractHeading

SpecHeading == InitHeading /\ [][NextHeading]_vars

----
\* populate_entry_from_file on its own: one article of each shape of name,
\* every text, clean-title on and off.
TitleArticles ==
    {Pair(<<CatF, x>>, "FLAT") :
        x \in {NameA, NamePost, NameUnderPost, NameSeps, NameStampOnly,
               NameNoStamp, NameLateStamp, NameBadDate}}
    \cup {Pair(<<CatT, x, IndexGmi>>, "TREE") : x \in {DirSub, DirDated, DirUnderPost}}

InitTitle ==
    /\ \E a \in TitleArticles, x \in Texts :
           /\ fs = (a.f :> [isFile |-> TRUE, mode |-> 420, time |-> 1650000000,
                            lines |-> x])
           /\ selected = <<a>>
    /\ clean \in BOOLEAN
    /\ n = 0
    /\ verbose = FALSE
    /\ outFile = NoFile
    /\ pc = "title"
    /\ files = <<>>
    /\ entries = <<>>
    /\ timeRead = {}
    /\ stdout = <<>>
    /\ feedTitle = <<>>
    /\ panic = NoPanic
    /\ hResult = Idle

PopulateTitle ==
    /\ pc = "title"
    /\ hResult' = populate_entry_from_file(selected[1].f, selected[1].cat, clean)
    /\ pc' = "titled"
    /\ UNCHANGED <<fs, n, verbose, clean, files, selected, entries, timeRead, stdout,
                   outFile, feedTitle, panic>>

NextTitle == PopulateTitle

SpecTitle == InitTitle /\ [][NextTitle]_vars

----
\* Properties.

\* get_files has returned or panicked
GotFiles ==
    \/ pc \in {"populate", "done"}
    \/ pc = "aborted" /\ panic.stage # "get_feed_title"

\* a document was written by this run
Written == outFile.kind = "feed"

\* the name of a candidate that decides its updated time starts with a date
DateInName(a) == RFC3339_RE_is_match(Chars(basename(a.f, a.cat)))

\* the candidates get_files left out of the selection
LeftOut == {files[j] : j \in (Len(selected) + 1)..Len(files)}

\* C1: for every merged candidate list and every limit n, get_files keeps
\* exactly min(n, number of candidates) entries, and with fewer candidates
\* than n the run goes on (it does not abort).
C1_KeepsMinOfLimitAndCandidates ==
    GotFiles =>
        /\ panic.stage # "get_files"
        /\ Len(selected) = Min(n, Len(files))

\* C2: the entries of the feed are the n candidates with the latest resolved
\* updated time, most recent first: consecutive entries have non-increasing
\* updated times and no entry is older than a candidate left out.
C2_LatestResolvedTimeFirst ==
    Written =>
        LET es == outFile.entries
        IN  /\ Len(es) = n
            /\ \A i \in 1..(Len(es) - 1) : es[i].updated >= es[i + 1].updated
            /\ \A i \in 1..Len(es) : \A a \in LeftOut :
                   get_update_time(a.f, a.cat).ok
                       => es[i].updated >= get_update_time(a.f, a.cat).val

\* C2 as amended: the entries of the feed are the n candidates with the
\* latest filesystem time (time_func), latest first, in the order get_files
\* ranked them.
C2_LatestFilesystemTimeFirst ==
    Written =>
        LET es == outFile.entries
        IN  /\ Len(es) = n
            /\ \A i \in 1..Len(es) : es[i].id = files[i].f
            /\ \A i \in 1..(Len(es) - 1) : time_func(es[i].id) >= time_func(es[i + 1].id)
            /\ \A i \in 1..Len(es) : \A a \in LeftOut :
                   time_func(es[i].id) >= time_func(a.f)

C2_Witness ==
    /\ Written
    /\ Len(outFile.entries) = 1
    /\ Len(files) = 2
    /\ time_func(files[1].f) > time_func(files[2].f)

\* C3: whenever zero entries are selected (no candidate, or a limit that
\* selects none), no output file is written and the run ends successfully;
\* a document with an empty entry list is never produced.
C3_ZeroSelectedNoDocument ==
    (GotFiles /\ panic = NoPanic /\ Len(selected) = 0) => ~Written

\* C4: the feed-level updated time of a written document is the maximum of
\* its entries' updated times, which is the updated time of its first entry.
C4_FeedUpdatedIsMaximum ==
    (Written /\ Len(outFile.entries) > 0) =>
        /\ outFile.updated = outFile.entries[1].updated
        /\ \A i \in 1..Len(outFile.entries) :
               outFile.updated >= outFile.entries[i].updated

\* C4 as amended: the feed-level updated time of a written document with at
\* least one entry is the updated time of its first entry, the candidate
\* get_files ranked first.
C4_FeedUpdatedIsFirstEntry ==
    (Written /\ Len(outFile.entries) > 0) =>
        /\ outFile.updated = outFile.entries[1].updated
        /\ outFile.entries[1].id = files[1].f

C4_Witness ==
    /\ Written
    /\ Len(outFile.entries) = 2
    /\ outFile.entries[1].updated # outFile.entries[2].updated

\* C5: every path collect_articles returns is a regular file with the
\* other-read bit set, for either category kind.
C5_OnlyWorldReadableRegularFiles ==
    GotFiles =>
        \A i \in 1..Len(files) : is_file(files[i].f) /\ is_world_readable(files[i].f)

\* C6: a Flat category yields only files directly inside the category
\* directory whose name is no index name; a Tree category yields only index
\* files in a subdirectory strictly below the category root.
C6_FlatAndTreeArticles ==
    \A i \in 1..Len(files) :
        LET path == files[i].f
            typ == files[i].cat
        IN  /\ path[1] \in DOMAIN categories
            /\ typ = categories[path[1]]
            /\ typ = "FLAT" => Len(path) = 2 /\ file_name(path) \notin indexes
            /\ typ = "TREE" => Len(path) >= 3 /\ file_name(path) \in indexes

C6_Witness ==
    /\ GotFiles
    /\ Len(files) = 1
    /\ files[1].cat = "TREE"
    /\ is_file(<<CatT, IndexGmi>>)
    /\ is_world_readable(<<CatT, IndexGmi>>)

\* the instant a name's leading YYYY-MM-DD stands for, at 00:00:00 UTC
MidnightUTC(name) ==
    LET c == Chars(name)
    IN  DaysFromCivil(
            DigitVal(c[1]) * 1000 + DigitVal(c[2]) * 100 + DigitVal(c[3]) * 10 + DigitVal(c[4]),
            DigitVal(c[6]) * 10 + DigitVal(c[7]),
            DigitVal(c[9]) * 10 + DigitVal(c[10])) * 86400

\* C7: every selected candidate whose date-source name starts with
\* YYYY-MM-DD gets that date at 00:00:00 UTC as its updated time, whatever
\* the digits: building its entry does not fail, and by the end of the run
\* the file's filesystem time was never consulted.
C7_DateInNameAlwaysUsed ==
    \A i \in 1..Len(selected) :
        DateInName(selected[i]) =>
            /\ i <= Len(entries) =>
                   entries[i].updated = MidnightUTC(basename(selected[i].f, selected[i].cat))
            /\ ~(pc = "aborted" /\ i = Len(entries) + 1)
            /\ pc \in {"done", "aborted"} => selected[i].f \notin timeRead

\* C8: the output file changes only in the step that follows the last
\* entry, and a run that panics leaves it as it was.
C8_NoPartialFeed ==
    [][/\ outFile' # outFile =>
              /\ pc = "populate"
              /\ Len(entries) = Len(selected)
              /\ pc' = "done"
              /\ outFile' = Document(feedTitle, entries)
       /\ pc' = "aborted" => outFile' = outFile]_vars

C8_Witness ==
    /\ pc = "aborted"
    /\ panic.stage = "populate_entry_from_file"
    /\ Len(entries) = 1
    /\ outFile = OldDoc

\* C9: in quiet mode a run that meets no error prints nothing on standard
\* output, whether a feed is written or there is nothing to publish.
C9_QuietPrintsNothing ==
    (pc # "start" /\ ~verbose /\ panic = NoPanic) => stdout = <<>>

\* what the first heading line of a text says, or the default
ExpectedHeading(lines, default) ==
    LET heads == {i \in 1..Len(lines) :
                     Chars(lines[i]) # <<>> /\ Chars(lines[i])[1] = "#"}
    IN  IF heads = {} THEN default
        ELSE LET first == Chars(lines[CHOOSE i \in heads : \A j \in heads : i <= j])
                 k == CHOOSE m \in 1..Len(first) :
                          /\ \A j \in 1..m : first[j] = "#"
                          /\ m = Len(first) \/ first[m + 1] # "#"
             IN  Trim(SubSeq(first, k + 1, Len(first)))

\* C10: extract_first_heading returns the text of the first line that
\* starts with '#', without the markers and the surrounding whitespace, also
\* when the line has markers only (the empty string); it returns the
\* default only when no line starts with '#'.
C10_FirstHeadingText ==
    pc = "returned" =>
        /\ hResult.ok
        /\ hResult.val = ExpectedHeading(fs[HeadingFile].lines, HeadingDefault)

\* the characters a date stamp may be followed by
Separators == {"-", "_", " ", "\t"}

\* the name begins with YYYY-MM-DD
HasStamp(s) ==
    /\ Len(s) >= 10
    /\ \A i \in 1..10 : IF i \in {5, 8} THEN s[i] = "-" ELSE s[i] \in Digits

\* the name without its stamp and the separators right after it
WithoutStamp(s) ==
    IF ~HasStamp(s) THEN s
    ELSE LET k == CHOOSE m \in 11..(Len(s) + 1) :
                      /\ \A j \in 11..(m - 1) : s[j] \in Separators
                      /\ m = Len(s) + 1 \/ s[m] \notin Separators
         IN  SubSeq(s, k, Len(s))

\* the file name without its extension (Flat), the directory's name (Tree)
DefaultName(a) ==
    IF a.cat = "FLAT"
    THEN LET name == Chars(a.f[Len(a.f)])
             ext == IF EndsWith(name, Chars(ExtGmi)) THEN Chars(ExtGmi)
                    ELSE Chars(ExtGemini)
         IN  SubSeq(name, 1, Len(name) - Len(ext))
    ELSE Chars(a.f[Len(a.f) - 1])

HasHeadingLine(lines) ==
    \E i \in 1..Len(lines) : StartsWith(Chars(lines[i]), <<"#">>)

ExpectedTitle(a, lines, cl) ==
    IF HasHeadingLine(lines) THEN ExpectedHeading(lines, <<>>)
    ELSE LET stripped == WithoutStamp(DefaultName(a))
         IN  IF cl THEN [i \in 1..Len(stripped) |->
                            IF stripped[i] = "_" THEN " " ELSE stripped[i]]
             ELSE stripped

====
